---- MODULE Spec2Model ----
(***************************************************************************)
(* Token lifecycle of the API backend: refresh-token issuance, rotation    *)
(* and revocation, and the password-reset token lifecycle, as implemented  *)
(* in app/domain/auth (service, repository, router), app/core/jwt.py and   *)
(* app/utils/crypto.py; the Redis rate limiter of app/core/rate_limiter.py *)
(* and the notification pub-sub of app/domain/notifications.               *)
(*                                                                         *)
(* Every request handler is cut at its await points that touch the         *)
(* database or the Redis store: one action per round trip.  Each request   *)
(* runs in its own AsyncSession (app/db/session.py get_db), so a handler   *)
(* only sees another handler's writes through the committed tables.        *)
(*                                                                         *)
(* The token lifecycle counts time in minutes since the epoch (UTC), the   *)
(* rate limiter in seconds.                                                *)
(***************************************************************************)
EXTENDS Integers, Sequences, FiniteSets, TLC

\* ------------------------------------------------------------ bounds
\* Concurrent request slots of the interleaved specification.
MaxProcs == 2
\* Rows of refresh_tokens beyond which no request that issues a token pair
\* starts.
MaxIssue == 2
\* Rows of password_reset_tokens beyond which no reset request starts.
MaxReset == 1
\* Clock advances in one behaviour.
MaxTicks == 1
\* Rate-limit checks started in one behaviour.
MaxChecks == 4
\* The last second the rate limiter's clock reaches.
MaxClock == 4
\* Rows of notifications beyond which no send_notification starts.
MaxNotify == 2
\* POST /messages/ requests ended beyond which none starts.
MaxPosts == 2

\* ------------------------------------------------------------ program constants
ACCESS_TOKEN_EXPIRE_MINUTES == 15
REFRESH_TOKEN_EXPIRE_DAYS == 30
RESET_TOKEN_EXPIRE_HOURS == 1
SECRET_KEY == "your-secret-key-here"

\* @rate_limit(limit=10, window=60, ...) on POST /messages/.
SEND_MESSAGE_LIMIT == 10
SEND_MESSAGE_WINDOW == 60
\* self.retry(exc=e, countdown=60, max_retries=3) in send_message_task.
TASK_MAX_RETRIES == 3

AccessTTL == ACCESS_TOKEN_EXPIRE_MINUTES
RefreshTTL == REFRESH_TOKEN_EXPIRE_DAYS * 24 * 60
ResetTTL == RESET_TOKEN_EXPIRE_HOURS * 60

\* ------------------------------------------------------------ input domains
Procs == 1..MaxProcs
\* A user is identified by one name, standing for its id, email and username.
Users == {"u1", "u2"}
Passwords == {"pw1", "pw2"}
\* The password a user registers with.
RegisterPasswords == {"pw1"}
\* Offsets of the server's local time zone from UTC, in minutes.
TzOffsets == {-60, 0, 60}
\* Clock advances, around the refresh-token and the reset-token lifetime.
RefreshTicks == {RefreshTTL - 1, RefreshTTL}
ExpiryTicks == {RefreshTTL - 1, RefreshTTL, RefreshTTL + 1}
ResetTicks == {ResetTTL, ResetTTL + 1}
\* Rate-limit keys, and the limit and window (seconds) a decorator is
\* configured with.
Keys == {"k1", "k2", "k3", "k4"}
\* The keys the calls of a caller that names its key are made on.
CallKeys == {"k1", "k2"}
Limits == {1, 2}
Windows == {2, 3}
\* How a round trip to the store ends: with its reply, with an error before
\* the store ran the commands, or with an error after it ran them.
StoreOutcomes == {"reply", "unreachable", "reply_lost"}
\* The half-seconds past the whole second at which get_retry_after reads
\* time.time().
Fractions == {0, 1}
\* The worker processes that serve POST /messages/, each with its own hash
\* seed, and the values str(args) + str(kwargs) takes for requests of one
\* user: the repr of the request body, of the user and of the request's
\* MessageService object, which holds the object's address.
Workers == {"w1", "w2"}
Texts == {"t1", "t2"}
\* What a subscriber's callback does with a message.
Callbacks == {"returns", "raises"}

VARIABLES
    tz,              \* the server's local UTC offset (fixed at start-up)
    now,             \* the clock, minutes since the epoch, UTC
    ticks,           \* clock advances so far
    users,           \* table users: name -> [exists, is_active, password_hash]
    refresh_tokens,  \* table refresh_tokens: sequence of rows (id = index)
    reset_tokens,    \* table password_reset_tokens: sequence of rows
    outbox,          \* emails handed to send_password_reset_email
    pc,              \* per request slot: the await point it is suspended at
    loc,             \* per request slot: the handler's local variables
    res,             \* per request slot: outcome of the request it finished
                     \* in the last step, if it did
    issuedRefresh,   \* refresh tokens returned to clients
    issuedAccess,    \* access tokens returned to clients
    clock,           \* time.time(), in seconds
    limit,           \* the limit the rate_limit decorator was given
    window,          \* the window (seconds) the decorator was given
    zsets,           \* the store's sorted sets: key -> scores held (the
                     \* member of a score is its string)
    ttl,             \* the store's key expiry: key -> second at which the
                     \* key is deleted, 0 for none
    calls,           \* per slot: the rate-limited call in flight
    log,             \* history: the rate-limited calls that ended, in order
    notifications,   \* table notifications: sequence of rows
    subscribed,      \* channels the broker has the listener subscribed to
    listeners,       \* NotificationPubSub._listeners: channel -> callback,
                     \* "none" for a channel not in the dict
    inbox,           \* messages the broker delivered to the listener's
                     \* connection, not yet taken by the loop
    listening,       \* listen_for_notifications: "idle", "running", "ended"
    sending,         \* the send_notification in flight
    subop,           \* the subscribe or unsubscribe call in flight
    handled,         \* history: callback invocations, in order
    pubres,          \* outcome of the pub-sub call that ended in the last
                     \* step, if one did
    messages,        \* table messages: the rows
    tasks,           \* the send_message tasks queued on the Celery broker
    posting,         \* the POST /messages/ request in flight
    posted           \* history: the POST /messages/ requests that ended, in
                     \* order

authVars == <<tz, now, ticks, users, refresh_tokens, reset_tokens, outbox,
              pc, loc, res, issuedRefresh, issuedAccess>>
limiterVars == <<clock, limit, window, zsets, ttl, calls, log>>
pubsubVars == <<notifications, subscribed, listeners, inbox, listening,
                sending, subop, handled, pubres>>
messageVars == <<messages, tasks, posting, posted>>
vars == <<authVars, limiterVars, pubsubVars, messageVars>>

\* ------------------------------------------------------------ app/core/security.py
NoHash == [scheme |-> "none", pw |-> "none"]
get_password_hash(password) == [scheme |-> "bcrypt", pw |-> password]
verify_password(plain_password, hashed_password) ==
    hashed_password = get_password_hash(plain_password)

\* ------------------------------------------------------------ app/utils/crypto.py
\* secrets.token_urlsafe(32): a value that is not among those in use.
generate_jti(in_use) ==
    CHOOSE n \in 1..(Cardinality(in_use) + 1) : n \notin in_use
\* A raw reset token, likewise; h counts the applications of SHA-256 to it.
generate_token(in_use) == [v |-> generate_jti(in_use), h |-> 0]
hash_token(token) == [token EXCEPT !.h = @ + 1]

\* ------------------------------------------------------------ app/core/jwt.py
NoPayload == [sub |-> "none", jti |-> 0, exp |-> 0, email |-> "none"]
NoToken == [payload |-> NoPayload, sig |-> "none"]
jwt_encode(payload, key) == [payload |-> payload, sig |-> key]
\* create_access_token: data plus exp and a fresh jti, signed.
create_access_token(data, jti) ==
    jwt_encode([sub |-> data.sub, email |-> data.email, jti |-> jti,
                exp |-> now + AccessTTL], SECRET_KEY)
\* create_refresh_token: data (sub only) plus exp and a fresh jti, signed.
create_refresh_token(data, jti) ==
    jwt_encode([sub |-> data.sub, email |-> "none", jti |-> jti,
                exp |-> now + RefreshTTL], SECRET_KEY)
\* jwt.decode raises on a wrong signature and once exp <= now.
DecodeOk(token) == token.sig = SECRET_KEY /\ now < token.payload.exp
decode_token(token) == token.payload

\* ------------------------------------------------------------ datetime
\* datetime.fromtimestamp(ts, tz=timezone.utc): aware, wall clock in UTC.
FromTimestampUtc(ts) == [wall |-> ts, aware |-> TRUE]
\* datetime.fromtimestamp(ts): naive, wall clock in the server's local zone.
FromTimestampLocal(ts) == [wall |-> ts + tz, aware |-> FALSE]
\* Column(DateTime): stores the wall-clock fields and drops tzinfo.
StoreDateTime(dt) == dt.wall
LoadDateTime(wall) == [wall |-> wall, aware |-> FALSE]
\* The expiry test of refresh_access_token and confirm_password_reset: a naive
\* value is compared with naive UTC now, an aware one with aware UTC now.
IsExpired(dt) ==
    IF ~dt.aware THEN dt.wall < now ELSE dt.wall < now

\* ------------------------------------------------------------ rows
\* A row of refresh_tokens.  The columns are user_id, jti, expires_at and
\* revoked; the other fields are history: by is the operation that first
\* revoked the row, succ the jti of the replacement token of the rotation
\* that revoked it last, rot the number of refreshes that returned a token
\* pair for this row's token.
NewRefreshRow(user_id, jti, expires_at) ==
    [user_id |-> user_id, jti |-> jti, expires_at |-> StoreDateTime(expires_at),
     revoked |-> FALSE, by |-> "none", succ |-> 0, rot |-> 0]
\* get_refresh_token_by_jti: the indexes of the rows with this jti.
RowsByJti(jti) == {i \in 1..Len(refresh_tokens) : refresh_tokens[i].jti = jti}
\* jti is a unique column: an insert of a jti already present is rejected.
JtiFree(jti) == RowsByJti(jti) = {}

NoUser == [exists |-> FALSE, is_active |-> FALSE, password_hash |-> NoHash]

\* ------------------------------------------------------------ request slots
NoLoc == [op |-> "none", tok |-> NoToken, ix |-> 0, uid |-> "none",
          pw |-> "none", sel |-> {}, acc |-> NoToken, rt |-> NoToken,
          raw |-> [v |-> 0, h |-> 0],
          preValid |-> FALSE, preRotated |-> FALSE, preRevoked |-> FALSE,
          preActive |-> FALSE, preLoggedOut |-> FALSE, preConfirmed |-> FALSE]
\* An outcome: the operation, what it returned or raised, the user it was
\* for, and what held when the request started.
NoRes == [op |-> "none", out |-> "none", uid |-> "none",
          preValid |-> FALSE, preRotated |-> FALSE, preRevoked |-> FALSE,
          preActive |-> FALSE, preLoggedOut |-> FALSE, preConfirmed |-> FALSE]

\* The outcome record of the request in slot p.
Outcome(p, l, out) ==
    [op |-> l.op, out |-> out, uid |-> l.uid, preValid |-> l.preValid,
     preRotated |-> l.preRotated, preRevoked |-> l.preRevoked,
     preActive |-> l.preActive, preLoggedOut |-> l.preLoggedOut,
     preConfirmed |-> l.preConfirmed]

\* Slot p's request ends with outcome out.
Finish(p, l, out) ==
    /\ pc' = [pc EXCEPT ![p] = "idle"]
    /\ loc' = [loc EXCEPT ![p] = NoLoc]
    /\ res' = [q \in Procs |-> IF q = p THEN Outcome(p, l, out) ELSE NoRes]

\* Slot p's request suspends at await point at with locals l.
Suspend(p, l, at) ==
    /\ pc' = [pc EXCEPT ![p] = at]
    /\ loc' = [loc EXCEPT ![p] = l]
    /\ res' = [q \in Procs |-> NoRes]

\* A request that issues a token pair starts while the table holds fewer
\* than MaxIssue rows, one that creates a reset token while it holds fewer
\* than MaxReset.
MayIssue == Len(refresh_tokens) < MaxIssue
MayReset == Len(reset_tokens) < MaxReset
\* The jtis in use: of the persisted rows, of the tokens created for them and
\* of the tokens requests in flight hold.
JtisInUse ==
    {refresh_tokens[i].jti : i \in 1..Len(refresh_tokens)} \cup
    {refresh_tokens[i].succ : i \in 1..Len(refresh_tokens)} \cup
    {decode_token(loc[p].rt).jti : p \in Procs} \cup
    {decode_token(loc[p].acc).jti : p \in Procs} \cup
    {decode_token(t).jti : t \in issuedAccess}

AuthInit ==
    /\ tz \in TzOffsets
    /\ now = 0
    /\ ticks = 0
    /\ users = [u \in Users |-> NoUser]
    /\ refresh_tokens = <<>>
    /\ reset_tokens = <<>>
    /\ outbox = {}
    /\ pc = [p \in Procs |-> "idle"]
    /\ loc = [p \in Procs |-> NoLoc]
    /\ res = [p \in Procs |-> NoRes]
    /\ issuedRefresh = {}
    /\ issuedAccess = {}

\* No call in flight.
NoCall == [at |-> "idle", key |-> "none", now |-> 0, store |-> "none"]

\* The store is empty and no rate-limited call has been made.
LimiterInit ==
    /\ clock = 0
    /\ zsets = [k \in Keys |-> {}]
    /\ ttl = [k \in Keys |-> 0]
    /\ calls = [p \in Procs |-> NoCall]
    /\ log = <<>>

\* f"notifications:user:{user_id}"
Channel(user_id) == <<"notifications:user", user_id>>
Channels == {Channel(u) : u \in Users}

NoSend == [at |-> "idle", user_id |-> "none", sync |-> FALSE, id |-> 0]
NoSubOp == [op |-> "none", channel |-> <<>>, callback |-> "none",
            preSubscribed |-> {}, preListeners |-> <<>>]
NoPubRes == [op |-> "none", out |-> "none", channel |-> <<>>,
             preSubscribed |-> {}, preListeners |-> <<>>]

\* The global NotificationPubSub instance after construction, and an empty
\* notifications table.
PubSubInit ==
    /\ notifications = <<>>
    /\ subscribed = {}
    /\ listeners = [c \in Channels |-> "none"]
    /\ inbox = <<>>
    /\ listening = "idle"
    /\ sending = NoSend
    /\ subop = NoSubOp
    /\ handled = <<>>
    /\ pubres = NoPubRes

NoPost == [at |-> "idle", req |-> 0, sender |-> "none", recipient |-> "none",
           key |-> "none"]

\* An empty messages table and an empty task queue.
MessagesInit ==
    /\ messages = {}
    /\ tasks = {}
    /\ posting = NoPost
    /\ posted = <<>>

Init ==
    /\ AuthInit
    /\ LimiterInit
    /\ PubSubInit
    /\ MessagesInit
    /\ limit = SEND_MESSAGE_LIMIT
    /\ window = SEND_MESSAGE_WINDOW

\* ------------------------------------------------------------ clock
Tick(d) ==
    /\ ticks < MaxTicks
    /\ now' = now + d
    /\ ticks' = ticks + 1
    /\ res' = [q \in Procs |-> NoRes]
    /\ UNCHANGED <<tz, users, refresh_tokens, reset_tokens, outbox, pc,
                   loc, issuedRefresh, issuedAccess>>

\* ------------------------------------------------------------ POST /auth/register
\* UserService.create_user: the lookups by email and by username.
RegisterStart(p, u, pw) ==
    /\ pc[p] = "idle"
    /\ MayIssue
    /\ LET l == [NoLoc EXCEPT !.op = "register", !.uid = u, !.pw = pw]
       IN IF users[u].exists
          THEN Finish(p, l, "User with this email already exists")
          ELSE Suspend(p, l, "reg_create")
    /\ UNCHANGED <<tz, now, ticks, users, refresh_tokens, reset_tokens,
                   outbox, issuedRefresh, issuedAccess>>

\* UserRepository.create: the insert into users (email and username unique).
RegisterCreate(p) ==
    /\ pc[p] = "reg_create"
    /\ LET l == loc[p]
       IN IF users[l.uid].exists
          THEN /\ Finish(p, l, "error")
               /\ UNCHANGED users
          ELSE /\ users' = [users EXCEPT ![l.uid] =
                              [exists |-> TRUE, is_active |-> TRUE,
                               password_hash |-> get_password_hash(l.pw)]]
               /\ Suspend(p, l, "reg_profile")
    /\ UNCHANGED <<tz, now, ticks, refresh_tokens, reset_tokens, outbox,
                   issuedRefresh, issuedAccess>>

\* ProfileRepository.create commits; the router then creates the token pair.
RegisterProfile(p) ==
    /\ pc[p] = "reg_profile"
    /\ LET l == loc[p]
           data == [sub |-> l.uid, email |-> l.uid]
           acc == create_access_token(data, generate_jti(JtisInUse))
           rt == create_refresh_token(
                     data, generate_jti(JtisInUse \cup {decode_token(acc).jti}))
       IN Suspend(p, [l EXCEPT !.acc = acc, !.rt = rt], "reg_store")
    /\ UNCHANGED <<tz, now, ticks, users, refresh_tokens, reset_tokens, outbox,
                   issuedRefresh, issuedAccess>>

\* The refresh-token row the register route persists (router.py 70-76).
RegisterRow(l) ==
    LET token_data == decode_token(l.rt)
    IN NewRefreshRow(l.uid, token_data.jti, FromTimestampLocal(token_data.exp))

\* AuthRepository.create_refresh_token, then the TokenResponse.
StoreAndReturn(p, l, row, table) ==
    IF JtiFree(row.jti)
    THEN /\ refresh_tokens' = Append(table, row)
         /\ issuedRefresh' = issuedRefresh \cup {l.rt}
         /\ issuedAccess' = issuedAccess \cup {l.acc}
         /\ Finish(p, l, "ok")
    ELSE /\ Finish(p, l, "error")
         /\ UNCHANGED <<refresh_tokens, issuedRefresh, issuedAccess>>

RegisterStore(p) ==
    /\ pc[p] = "reg_store"
    /\ StoreAndReturn(p, loc[p], RegisterRow(loc[p]), refresh_tokens)
    /\ UNCHANGED <<tz, now, ticks, users, reset_tokens, outbox>>

\* ------------------------------------------------------------ POST /auth/login
\* AuthService.authenticate_user up to the await of create_refresh_token.
LoginStart(p, u, pw) ==
    /\ pc[p] = "idle"
    /\ MayIssue
    /\ LET l == [NoLoc EXCEPT !.op = "login", !.uid = u, !.pw = pw]
           user == users[u]
           data == [sub |-> u, email |-> u]
           acc == create_access_token(data, generate_jti(JtisInUse))
           rt == create_refresh_token(
                     data, generate_jti(JtisInUse \cup {decode_token(acc).jti}))
       IN IF ~user.exists
          THEN Finish(p, l, "Invalid credentials")
          ELSE IF ~user.is_active
          THEN Finish(p, l, "User account is deactivated")
          ELSE IF ~verify_password(pw, user.password_hash)
          THEN Finish(p, l, "Invalid credentials")
          ELSE /\ Suspend(p, [l EXCEPT !.acc = acc, !.rt = rt], "login_store")
    /\ UNCHANGED <<tz, now, ticks, users, refresh_tokens, reset_tokens, outbox,
                   issuedRefresh, issuedAccess>>

\* Mutant of LoginRow: the jti persisted is the access token's.
LoginRow_AccessJti(l) ==
    LET token_data == decode_token(l.acc)
    IN [user_id |-> l.uid, jti |-> token_data.jti,
        expires_at |-> token_data.exp, revoked |-> FALSE, by |-> "none",
        succ |-> 0, rot |-> 0]

\* The refresh-token row authenticate_user persists (service.py 86-92).
LoginRow(l) ==
    LET token_data == decode_token(l.rt)
    IN NewRefreshRow(l.uid, token_data.jti, FromTimestampUtc(token_data.exp))

LoginStore(p) ==
    /\ pc[p] = "login_store"
    /\ StoreAndReturn(p, loc[p], LoginRow(loc[p]), refresh_tokens)
    /\ UNCHANGED <<tz, now, ticks, users, reset_tokens, outbox>>

\* ------------------------------------------------------------ POST /auth/refresh
\* Mutant of RefreshChecks: the revoked flag is not looked at.
RefreshChecks_SkipRevoked(token) ==
    LET payload == decode_token(token)
        found == RowsByJti(payload.jti)
        row == refresh_tokens[CHOOSE i \in found : TRUE]
    IN IF ~DecodeOk(token) THEN "Invalid refresh token"
       ELSE IF found = {} THEN "Invalid refresh token"
       ELSE IF IsExpired(LoadDateTime(row.expires_at))
       THEN "Refresh token has expired"
       ELSE "ok"

\* AuthService.refresh_access_token up to the await of user_repo.get_by_id:
\* decode, the row lookup by jti, the revoked and the expiry checks.
RefreshChecks(token) ==
    LET payload == decode_token(token)
        found == RowsByJti(payload.jti)
        row == refresh_tokens[CHOOSE i \in found : TRUE]
    IN IF ~DecodeOk(token) THEN "Invalid refresh token"
       ELSE IF payload.jti = 0 THEN "Invalid refresh token"
       ELSE IF found = {} THEN "Invalid refresh token"
       ELSE IF row.revoked THEN "Refresh token has been revoked"
       ELSE IF IsExpired(LoadDateTime(row.expires_at))
       THEN "Refresh token has expired"
       ELSE IF payload.sub = "none" THEN "Invalid refresh token"
       ELSE "ok"

RefreshStart(p, token) ==
    /\ pc[p] = "idle"
    /\ MayIssue \/ RefreshChecks(token) # "ok"
    /\ LET payload == decode_token(token)
           found == RowsByJti(payload.jti)
           l == [NoLoc EXCEPT
                   !.op = "refresh", !.tok = token, !.uid = payload.sub,
                   !.preValid = DecodeOk(token),
                   !.ix = IF found = {} THEN 0 ELSE CHOOSE i \in found : TRUE,
                   !.preRotated = \E i \in found : refresh_tokens[i].rot > 0,
                   !.preRevoked = \E i \in found : refresh_tokens[i].revoked,
                   !.preActive = /\ payload.sub \in Users
                                 /\ users[payload.sub].exists
                                 /\ users[payload.sub].is_active]
           out == RefreshChecks(token)
       IN IF out = "ok" THEN Suspend(p, l, "rf_user") ELSE Finish(p, l, out)
    /\ UNCHANGED <<tz, now, ticks, users, refresh_tokens, reset_tokens,
                   outbox, issuedRefresh, issuedAccess>>

\* Mutant of RefreshUser: the presented token's row is revoked before the
\* user is looked at.
RefreshUser_RevokesFirst(p) ==
    /\ pc[p] = "rf_user"
    /\ LET l == loc[p]
           user == users[l.uid]
           data == [sub |-> l.uid, email |-> l.uid]
           acc == create_access_token(data, generate_jti(JtisInUse))
           rt == create_refresh_token(
                     data, generate_jti(JtisInUse \cup {decode_token(acc).jti}))
       IN /\ refresh_tokens' =
                [refresh_tokens EXCEPT ![l.ix].revoked = TRUE]
          /\ IF ~user.exists \/ ~user.is_active
             THEN Finish(p, l, "User account is invalid")
             ELSE Suspend(p, [l EXCEPT !.acc = acc, !.rt = rt], "rf_revoke")
    /\ UNCHANGED <<tz, now, ticks, users, reset_tokens, outbox,
                   issuedRefresh, issuedAccess>>

\* user_repo.get_by_id, the is_active check and the new token pair.
RefreshUser(p) ==
    /\ pc[p] = "rf_user"
    /\ LET l == loc[p]
           user == users[l.uid]
           data == [sub |-> l.uid, email |-> l.uid]
           acc == create_access_token(data, generate_jti(JtisInUse))
           rt == create_refresh_token(
                     data, generate_jti(JtisInUse \cup {decode_token(acc).jti}))
       IN IF ~user.exists \/ ~user.is_active
          THEN Finish(p, l, "User account is invalid")
          ELSE /\ Suspend(p, [l EXCEPT !.acc = acc, !.rt = rt], "rf_revoke")
    /\ UNCHANGED <<tz, now, ticks, users, refresh_tokens, reset_tokens, outbox,
                   issuedRefresh, issuedAccess>>

\* Mutant of RevokedRow: the flag is flipped instead of set.
RevokedRow_Toggle(row) == [row EXCEPT !.revoked = ~@]

\* AuthRepository.revoke_refresh_token: the loaded row's revoked flag is set
\* and committed, whatever the flag holds in the table by now.
RevokedRow(row) == [row EXCEPT !.revoked = TRUE]

\* History: who revoked the row first.
RevokedBy(row, who) == [row EXCEPT !.by = IF @ = "none" THEN who ELSE @]

RefreshRevoke(p) ==
    /\ pc[p] = "rf_revoke"
    /\ LET l == loc[p]
       IN /\ refresh_tokens' =
                [refresh_tokens EXCEPT ![l.ix] =
                    [RevokedBy(RevokedRow(@), "rotate") EXCEPT
                        !.succ = decode_token(l.rt).jti]]
          /\ Suspend(p, l, "rf_store")
    /\ UNCHANGED <<tz, now, ticks, users, reset_tokens, outbox,
                   issuedRefresh, issuedAccess>>

\* The second create_refresh_token of the rotation and the return.
RefreshStore(p) ==
    /\ pc[p] = "rf_store"
    /\ LET l == loc[p]
           row == LoginRow(l)
       IN StoreAndReturn(p, l, row,
                         [refresh_tokens EXCEPT ![l.ix].rot = @ + 1])
    /\ UNCHANGED <<tz, now, ticks, users, reset_tokens, outbox>>

\* ------------------------------------------------------------ POST /auth/logout
\* AuthService.logout up to the await of revoke_refresh_token.
LogoutStart(p, token) ==
    /\ pc[p] = "idle"
    /\ LET payload == decode_token(token)
           found == RowsByJti(payload.jti)
           l == [NoLoc EXCEPT
                   !.op = "logout", !.tok = token, !.uid = payload.sub,
                   !.preValid = DecodeOk(token),
                   !.ix = IF found = {} THEN 0 ELSE CHOOSE i \in found : TRUE,
                   !.preRevoked = \E i \in found : refresh_tokens[i].revoked,
                   !.preLoggedOut =
                       \E i \in found : refresh_tokens[i].by = "logout"]
       IN IF ~DecodeOk(token) \/ payload.jti = 0
          THEN Finish(p, l, "Invalid refresh token")
          ELSE IF found = {}
          THEN Finish(p, l, "ok")
          ELSE Suspend(p, l, "lo_revoke")
    /\ UNCHANGED <<tz, now, ticks, users, refresh_tokens, reset_tokens,
                   outbox, issuedRefresh, issuedAccess>>

LogoutRevoke(p) ==
    /\ pc[p] = "lo_revoke"
    /\ LET l == loc[p]
       IN /\ refresh_tokens' = [refresh_tokens EXCEPT
                                  ![l.ix] = RevokedBy(RevokedRow(@), "logout")]
          /\ Finish(p, l, "ok")
    /\ UNCHANGED <<tz, now, ticks, users, reset_tokens, outbox,
                   issuedRefresh, issuedAccess>>

\* ------------------------------------------------------------ AuthService.logout_all
\* AuthRepository.revoke_all_refresh_tokens: the select of the user's rows.
UserRows(user_id) ==
    {i \in 1..Len(refresh_tokens) : refresh_tokens[i].user_id = user_id}

LogoutAllStart(p, u) ==
    /\ pc[p] = "idle"
    /\ LET l == [NoLoc EXCEPT !.op = "logout_all", !.uid = u,
                              !.sel = UserRows(u)]
       IN Suspend(p, l, "la_commit")
    /\ UNCHANGED <<tz, now, ticks, users, refresh_tokens, reset_tokens,
                   outbox, issuedRefresh, issuedAccess>>

\* Mutant of RevokeAll: the select has lost its WHERE clause.
RevokeAll_EveryUser(rows, sel) ==
    [i \in 1..Len(rows) |-> [rows[i] EXCEPT !.revoked = TRUE]]

\* The loop over the selected rows and the commit.
RevokeAll(rows, sel) ==
    [i \in 1..Len(rows) |->
        IF i \in sel THEN RevokedBy(RevokedRow(rows[i]), "logout_all")
        ELSE rows[i]]

LogoutAllCommit(p) ==
    /\ pc[p] = "la_commit"
    /\ LET l == loc[p]
       IN /\ refresh_tokens' = RevokeAll(refresh_tokens, l.sel)
          /\ Finish(p, l, "ok")
    /\ UNCHANGED <<tz, now, ticks, users, reset_tokens, outbox,
                   issuedRefresh, issuedAccess>>

\* ------------------------------------------------------------ POST /auth/logout-all
\* get_current_user: the bearer token decodes, its sub is an active user.
CurrentUserOk(token) ==
    /\ DecodeOk(token)
    /\ decode_token(token).sub \in Users
    /\ users[decode_token(token).sub].exists
    /\ users[decode_token(token).sub].is_active

\* The route: the dependency, then the success message.
LogoutAllEndpoint(p, token) ==
    /\ pc[p] = "idle"
    /\ LET l == [NoLoc EXCEPT !.op = "logout_all_endpoint", !.tok = token,
                              !.uid = decode_token(token).sub]
       IN IF CurrentUserOk(token)
          THEN Finish(p, l, "Successfully logged out from all devices")
          ELSE Finish(p, l, "401")
    /\ UNCHANGED <<tz, now, ticks, users, refresh_tokens, reset_tokens,
                   outbox, issuedRefresh, issuedAccess>>

\* ------------------------------------------------------------ POST /auth/request-password-reset
\* Mutant of RequestResetStart: an unknown email is reported to the caller.
RequestResetStart_RevealsUnknown(p, email) ==
    /\ pc[p] = "idle"
    /\ MayReset \/ ~users[email].exists
    /\ LET l == [NoLoc EXCEPT !.op = "request_reset", !.uid = email]
       IN IF ~users[email].exists
          THEN Finish(p, l, "User not found")
          ELSE Suspend(p, l, "pr_create")
    /\ UNCHANGED <<tz, now, ticks, users, refresh_tokens, reset_tokens,
                   outbox, issuedRefresh, issuedAccess>>

\* AuthService.request_password_reset: the lookup by email.  A request for
\* an email that matches no user creates nothing and may always start.
RequestResetStart(p, email) ==
    /\ pc[p] = "idle"
    /\ MayReset \/ ~users[email].exists
    /\ LET l == [NoLoc EXCEPT !.op = "request_reset", !.uid = email]
       IN IF ~users[email].exists
          THEN Finish(p, l, "ok")
          ELSE Suspend(p, l, "pr_create")
    /\ UNCHANGED <<tz, now, ticks, users, refresh_tokens, reset_tokens,
                   outbox, issuedRefresh, issuedAccess>>

\* Mutant of NewResetRow: the raw token is persisted in place of its hash.
NewResetRow_StoresRaw(user_id, token) ==
    [user_id |-> user_id, token_hash |-> token, expires_at |-> now + ResetTTL,
     used |-> FALSE, conf |-> 0, issued_at |-> now]

\* The row AuthRepository.create_password_reset_token persists for raw token.
\* The columns are user_id, token_hash, expires_at and used; conf is history:
\* the number of confirmations that succeeded with this row, issued_at the
\* minute the row was created.
NewResetRow(user_id, token) ==
    [user_id |-> user_id, token_hash |-> hash_token(token),
     expires_at |-> StoreDateTime(FromTimestampUtc(now + ResetTTL)),
     used |-> FALSE, conf |-> 0, issued_at |-> now]

\* create_password_reset_token: the insert; the raw token rides on the
\* returned object only.
RequestResetCreate(p) ==
    /\ pc[p] = "pr_create"
    /\ LET l == loc[p]
           token == generate_token({m.token.v : m \in outbox} \cup
                                   {reset_tokens[i].token_hash.v :
                                       i \in 1..Len(reset_tokens)})
       IN /\ reset_tokens' = Append(reset_tokens, NewResetRow(l.uid, token))
          /\ Suspend(p, [l EXCEPT !.raw = token], "pr_send")
    /\ UNCHANGED <<tz, now, ticks, users, refresh_tokens, outbox, issuedRefresh,
                   issuedAccess>>

\* send_password_reset_email(user.email, reset_token.token), then the
\* route's fixed message.
RequestResetSend(p) ==
    /\ pc[p] = "pr_send"
    /\ LET l == loc[p]
       IN /\ outbox' = outbox \cup {[to |-> l.uid, token |-> l.raw]}
          /\ Finish(p, [l EXCEPT !.raw = NoLoc.raw], "ok")
    /\ UNCHANGED <<tz, now, ticks, users, refresh_tokens, reset_tokens,
                   issuedRefresh, issuedAccess>>

\* ------------------------------------------------------------ POST /auth/confirm-password-reset
\* get_password_reset_token_by_hash: the indexes of the rows with this hash.
ResetRowsByHash(token_hash) ==
    {i \in 1..Len(reset_tokens) : reset_tokens[i].token_hash = token_hash}

\* Mutant of ConfirmChecks: the expiry is tested before the used flag.
ConfirmChecks_ExpiryFirst(token) ==
    LET found == ResetRowsByHash(hash_token(token))
        row == reset_tokens[CHOOSE i \in found : TRUE]
    IN IF found = {} THEN "Invalid or expired reset token"
       ELSE IF IsExpired(LoadDateTime(row.expires_at))
       THEN "Reset token has expired"
       ELSE IF row.used THEN "Reset token has already been used"
       ELSE "ok"

\* AuthService.confirm_password_reset up to the await of user_repo.get_by_id.
ConfirmChecks(token) ==
    LET found == ResetRowsByHash(hash_token(token))
        row == reset_tokens[CHOOSE i \in found : TRUE]
    IN IF found = {} THEN "Invalid or expired reset token"
       ELSE IF row.used THEN "Reset token has already been used"
       ELSE IF IsExpired(LoadDateTime(row.expires_at))
       THEN "Reset token has expired"
       ELSE "ok"

ConfirmStart(p, token, new_password) ==
    /\ pc[p] = "idle"
    /\ LET found == ResetRowsByHash(hash_token(token))
           ix == IF found = {} THEN 0 ELSE CHOOSE i \in found : TRUE
           l == [NoLoc EXCEPT
                   !.op = "confirm_reset", !.raw = token, !.pw = new_password,
                   !.ix = ix,
                   !.uid = IF ix = 0 THEN "none" ELSE reset_tokens[ix].user_id,
                   !.preConfirmed = \E i \in found : reset_tokens[i].conf > 0]
           out == ConfirmChecks(token)
       IN IF out = "ok" THEN Suspend(p, l, "cf_user") ELSE Finish(p, l, out)
    /\ UNCHANGED <<tz, now, ticks, users, refresh_tokens, reset_tokens,
                   outbox, issuedRefresh, issuedAccess>>

\* user_repo.get_by_id.
ConfirmUser(p) ==
    /\ pc[p] = "cf_user"
    /\ LET l == loc[p]
       IN IF ~users[l.uid].exists
          THEN Finish(p, l, "User not found")
          ELSE Suspend(p, l, "cf_update")
    /\ UNCHANGED <<tz, now, ticks, users, refresh_tokens, reset_tokens,
                   outbox, issuedRefresh, issuedAccess>>

\* user.password_hash = get_password_hash(new_password); user_repo.update.
ConfirmUpdate(p) ==
    /\ pc[p] = "cf_update"
    /\ LET l == loc[p]
       IN /\ users' = [users EXCEPT
                         ![l.uid].password_hash = get_password_hash(l.pw)]
          /\ Suspend(p, l, "cf_use")
    /\ UNCHANGED <<tz, now, ticks, refresh_tokens, reset_tokens, outbox,
                   issuedRefresh, issuedAccess>>

\* Mutant of UsedRow: the used flag is not set.
UsedRow_NotMarked(row) == row

\* AuthRepository.use_password_reset_token.
UsedRow(row) == [row EXCEPT !.used = TRUE]

ConfirmUse(p) ==
    /\ pc[p] = "cf_use"
    /\ LET l == loc[p]
       IN /\ reset_tokens' = [reset_tokens EXCEPT
                                ![l.ix] = [UsedRow(@) EXCEPT !.conf = @ + 1]]
          /\ Finish(p, l, "Password successfully reset")
    /\ UNCHANGED <<tz, now, ticks, users, refresh_tokens, outbox,
                   issuedRefresh, issuedAccess>>

\* ------------------------------------------------------------ PATCH /users/{user_id}
\* UserService.update_user with is_active set (an admin's request).
UpdateUser(p, u, is_active) ==
    /\ pc[p] = "idle"
    /\ users[u].exists
    /\ users[u].is_active # is_active
    /\ users' = [users EXCEPT ![u].is_active = is_active]
    /\ Finish(p, [NoLoc EXCEPT !.op = "update_user", !.uid = u], "ok")
    /\ UNCHANGED <<tz, now, ticks, refresh_tokens, reset_tokens, outbox,
                   issuedRefresh, issuedAccess>>

\* ------------------------------------------------------------ failure
\* The request in slot p ends at its await point: the client disconnects or
\* the database call raises.  Its session closes; what it committed stays.
Abort(p) ==
    /\ pc[p] # "idle"
    /\ Finish(p, loc[p], "aborted")
    /\ UNCHANGED <<tz, now, ticks, users, refresh_tokens, reset_tokens,
                   outbox, issuedRefresh, issuedAccess>>

\* ------------------------------------------------------------ app/core/rate_limiter.py
\* The clock moves on by one second; the store deletes the keys whose expiry
\* has come.
Advance ==
    /\ clock < MaxClock
    /\ clock' = clock + 1
    /\ zsets' = [k \in Keys |->
                    IF ttl[k] # 0 /\ ttl[k] <= clock + 1 THEN {} ELSE zsets[k]]
    /\ ttl' = [k \in Keys |->
                    IF ttl[k] # 0 /\ ttl[k] <= clock + 1 THEN 0 ELSE ttl[k]]
    /\ UNCHANGED <<limit, window, calls, log>>

\* Calls started so far.
Started == Len(log) + Cardinality({p \in Procs : calls[p].at # "idle"})

\* rate_limit.wrapper up to the await in RateLimiter.is_allowed: the key is
\* made, is_allowed reads the clock and queues the four commands.
WrapperStart(p, key) ==
    /\ calls[p].at = "idle"
    /\ Started < MaxChecks
    /\ calls' = [calls EXCEPT ![p] = [at |-> "execute", key |-> key,
                                      now |-> clock, store |-> "none"]]
    /\ UNCHANGED <<clock, limit, window, zsets, ttl, log>>

\* ZREMRANGEBYSCORE key 0 max: the scores left.
zremrangebyscore(scores, min, max) == {s \in scores : ~(min <= s /\ s <= max)}
\* ZADD key {str(score): score}: a member already held keeps its one entry.
zadd(scores, score) == scores \cup {score}

\* Mutant of is_allowed: a failed round trip rejects the call.
is_allowed_FailClosed(current_count, lim, store) ==
    IF store = "reply" THEN current_count < lim ELSE FALSE

\* What is_allowed returns: the comparison when the pipeline replied, True
\* from the except branch when it raised.
is_allowed(current_count, lim, store) ==
    IF store = "reply" THEN current_count < lim ELSE TRUE

\* An ended call: the key, the clock value is_allowed read, the second at
\* which the call ended, how the store
\* round trip ended, what is_allowed returned, what the wrapper did, and the
\* retry_after it reported after a get_retry_after round trip that ended as
\* retry_store and read the clock retry_frac half-seconds into the second.
LogEntry(c, store, allowed, out, retry_store, retry_frac, retry_after) ==
    [key |-> c.key, now |-> c.now, done |-> clock, store |-> store,
     allowed |-> allowed, out |-> out, retry_store |-> retry_store,
     retry_frac |-> retry_frac, retry_after |-> retry_after]

\* pipeline.execute() of is_allowed, a MULTI/EXEC transaction, and the
\* wrapper's branch on the result: an allowed call invokes the wrapped
\* function, a rejected one goes on to get_retry_after.
Execute(p, store) ==
    /\ calls[p].at = "execute"
    /\ LET c == calls[p]
           kept == zremrangebyscore(zsets[c.key], 0, c.now - window)
           current_count == Cardinality(kept)
           allowed == is_allowed(current_count, limit, store)
       IN /\ IF store = "unreachable"
             THEN UNCHANGED <<zsets, ttl>>
             ELSE /\ zsets' = [zsets EXCEPT ![c.key] = zadd(kept, c.now)]
                  /\ ttl' = [ttl EXCEPT ![c.key] = clock + window]
          /\ IF allowed
             THEN /\ calls' = [calls EXCEPT ![p] = NoCall]
                  /\ log' = Append(log, LogEntry(c, store, TRUE, "invoked", "none", 0, 0))
             ELSE /\ calls' = [calls EXCEPT ![p].at = "retry_after",
                                            ![p].store = store]
                  /\ UNCHANGED log
    /\ UNCHANGED <<clock, limit, window>>

\* The smallest score held: ZRANGE key 0 0 WITHSCORES.
Earliest(scores) == CHOOSE s \in scores : \A t \in scores : s <= t
Max(a, b) == IF a >= b THEN a ELSE b

\* int() of a float given in half-seconds: the whole seconds, rounded
\* towards zero.
ToInt(halves) == IF halves >= 0 THEN halves \div 2 ELSE -((-halves) \div 2)

\* Mutant of get_retry_after: the wait is counted from the latest entry.
get_retry_after_Latest(scores, win, t, frac, store) ==
    IF store # "reply" THEN 0
    ELSE IF scores = {} THEN 0
    ELSE LET latest == CHOOSE s \in scores : \A u \in scores : u <= s
         IN Max(0, ToInt(2 * (latest + win - t) - frac))

\* RateLimiter.get_retry_after, reading the clock frac half-seconds after the
\* whole second t.
get_retry_after(scores, win, t, frac, store) ==
    IF store # "reply" THEN 0
    ELSE IF scores = {} THEN 0
    ELSE Max(0, ToInt(2 * (Earliest(scores) + win - t) - frac))

\* The wrapper's rejection: get_retry_after, then RateLimitExceededException.
RetryAfter(p, store, frac) ==
    /\ calls[p].at = "retry_after"
    /\ LET c == calls[p]
           r == get_retry_after(zsets[c.key], window, clock, frac, store)
       IN /\ log' = Append(log, LogEntry(c, c.store, FALSE, "rate_limited",
                                         store, frac, r))
          /\ calls' = [calls EXCEPT ![p] = NoCall]
    /\ UNCHANGED <<clock, limit, window, zsets, ttl>>

\* The rate-limited calls slot p may make on the keys K with the store
\* round trips ending as in S, get_retry_after reading the clock on a whole
\* second.
LimiterCall(p, K, S) ==
    \/ \E key \in K : WrapperStart(p, key)
    \/ \E store \in S : Execute(p, store)
    \/ \E store \in S : RetryAfter(p, store, 0)

\* ------------------------------------------------------------ app/domain/notifications
\* NotificationService.send_notification up to the await of
\* publish_notification: the user lookup, and notification_repo.create with
\* its commit.  send_notification_sync does the same on a Celery worker.
SendCreate(user_id, sync) ==
    /\ sending.at = "idle"
    /\ Len(notifications) < MaxNotify
    /\ IF ~users[user_id].exists
       THEN /\ pubres' = [NoPubRes EXCEPT !.op = "send", !.out = "User not found",
                                          !.channel = Channel(user_id)]
            /\ UNCHANGED <<notifications, sending>>
       ELSE /\ notifications' = Append(notifications, [user_id |-> user_id])
            /\ sending' = [at |-> "publish", user_id |-> user_id, sync |-> sync,
                           id |-> Len(notifications) + 1]
            /\ pubres' = NoPubRes
    /\ UNCHANGED <<subscribed, listeners, inbox, listening, subop, handled>>

\* PUBLISH channel message on the broker: the message reaches the
\* connections subscribed to the channel.
Publish(channel, message) ==
    IF channel \in subscribed THEN Append(inbox, message) ELSE inbox

\* Mutant of publish_notification: a broker error reaches the caller.
publish_notification_Raises(store) ==
    IF store = "unreachable" THEN "raises" ELSE "returns"

\* What publish_notification and publish_notification_sync do when the
\* round trip to the broker ends as store: "returns" or "raises".
publish_notification(store) == "returns"

\* publish_notification / publish_notification_sync, then the return of the
\* row by send_notification.
SendPublish(store) ==
    /\ sending.at = "publish"
    /\ LET channel == Channel(sending.user_id)
           message == [type |-> "message", channel |-> channel,
                       data |-> sending.id, json |-> TRUE]
       IN /\ inbox' = IF store = "unreachable" THEN inbox
                      ELSE Publish(channel, message)
          /\ pubres' = [NoPubRes EXCEPT
                           !.op = "send", !.channel = channel,
                           !.out = IF publish_notification(store) = "returns"
                                   THEN "ok" ELSE "error"]
    /\ sending' = NoSend
    /\ UNCHANGED <<notifications, subscribed, listeners, listening, subop,
                   handled>>

\* Another client of the broker publishes a payload that is not JSON text on
\* a channel.
ForeignPublish(channel) ==
    /\ Len(inbox) < MaxNotify
    /\ channel \in subscribed
    /\ inbox' = Publish(channel, [type |-> "message", channel |-> channel,
                                  data |-> 0, json |-> FALSE])
    /\ pubres' = NoPubRes
    /\ UNCHANGED <<notifications, subscribed, listeners, listening, sending,
                   subop, handled>>

\* subscribe_to_user_notifications up to the return of
\* pubsub.subscribe(channel).
SubscribeBroker(user_id, callback, store) ==
    /\ subop.op = "none"
    /\ IF store = "unreachable"
       THEN /\ pubres' = [NoPubRes EXCEPT !.op = "subscribe", !.out = "error",
                                          !.channel = Channel(user_id)]
            /\ UNCHANGED <<subscribed, subop>>
       ELSE /\ subscribed' = subscribed \cup {Channel(user_id)}
            /\ subop' = [op |-> "subscribe", channel |-> Channel(user_id),
                         callback |-> callback, preSubscribed |-> subscribed,
                         preListeners |-> listeners]
            /\ pubres' = NoPubRes
    /\ UNCHANGED <<notifications, listeners, inbox, listening, sending,
                   handled>>

\* self._listeners[channel] = callback
SubscribeStore ==
    /\ subop.op = "subscribe"
    /\ listeners' = [listeners EXCEPT ![subop.channel] = subop.callback]
    /\ pubres' = [op |-> "subscribe", out |-> "ok", channel |-> subop.channel,
                  preSubscribed |-> subop.preSubscribed,
                  preListeners |-> subop.preListeners]
    /\ subop' = NoSubOp
    /\ UNCHANGED <<notifications, subscribed, inbox, listening, sending,
                   handled>>

\* unsubscribe_from_user_notifications up to the return of
\* pubsub.unsubscribe(channel).
UnsubscribeBroker(user_id, store) ==
    /\ subop.op = "none"
    /\ IF store = "unreachable"
       THEN /\ pubres' = [NoPubRes EXCEPT !.op = "unsubscribe", !.out = "error",
                                          !.channel = Channel(user_id)]
            /\ UNCHANGED <<subscribed, subop>>
       ELSE /\ subscribed' = subscribed \ {Channel(user_id)}
            /\ subop' = [op |-> "unsubscribe", channel |-> Channel(user_id),
                         callback |-> "none", preSubscribed |-> subscribed,
                         preListeners |-> listeners]
            /\ pubres' = NoPubRes
    /\ UNCHANGED <<notifications, listeners, inbox, listening, sending,
                   handled>>

\* Mutant of RemoveListener: the dict entry is kept.
RemoveListener_Kept(table, channel) == table

\* if channel in self._listeners: del self._listeners[channel]
RemoveListener(table, channel) == [table EXCEPT ![channel] = "none"]

UnsubscribeRemove ==
    /\ subop.op = "unsubscribe"
    /\ listeners' = RemoveListener(listeners, subop.channel)
    /\ pubres' = [op |-> "unsubscribe", out |-> "ok", channel |-> subop.channel,
                  preSubscribed |-> subop.preSubscribed,
                  preListeners |-> subop.preListeners]
    /\ subop' = NoSubOp
    /\ UNCHANGED <<notifications, subscribed, inbox, listening, sending,
                   handled>>

\* listen_for_notifications is started.
ListenStart ==
    /\ listening = "idle"
    /\ listening' = "running"
    /\ pubres' = NoPubRes
    /\ UNCHANGED <<notifications, subscribed, listeners, inbox, sending,
                   subop, handled>>

\* Mutant of LoopAfter: an exception of the callback ends the loop.
LoopAfter_Propagates(callback) ==
    IF callback = "raises" THEN "ended" ELSE "running"

\* The loop after a callback returned or raised: the inner try catches the
\* exception and logs it.
LoopAfter(callback) == "running"

\* json.loads(message["data"]): the document of a payload that is JSON text,
\* an exception for any other payload.
json_loads(message) ==
    IF message.json THEN [ok |-> TRUE, value |-> message.data]
    ELSE [ok |-> FALSE, value |-> 0]

\* One iteration of the loop of listen_for_notifications: the next message,
\* json.loads of its payload, and its callback when the channel is in
\* _listeners.  json.loads is outside the inner try: its exception reaches
\* the except around the loop, which logs it, and the function returns.
ListenStep ==
    /\ listening = "running"
    /\ inbox # <<>>
    /\ LET message == Head(inbox)
           callback == listeners[message.channel]
           data == json_loads(message)
       IN /\ inbox' = Tail(inbox)
          /\ IF message.type = "message" /\ ~data.ok
             THEN /\ listening' = "ended"
                  /\ UNCHANGED handled
             ELSE IF message.type = "message" /\ callback # "none"
             THEN /\ handled' = Append(handled,
                                       [channel |-> message.channel,
                                        data |-> data.value,
                                        callback |-> callback])
                  /\ listening' = LoopAfter(callback)
             ELSE UNCHANGED <<handled, listening>>
    /\ pubres' = NoPubRes
    /\ UNCHANGED <<notifications, subscribed, listeners, sending, subop>>

\* pubsub.listen() ends once the connection has no subscription left.
ListenEnd ==
    /\ listening = "running"
    /\ inbox = <<>>
    /\ subscribed = {}
    /\ subop.op = "none"
    /\ listening' = "ended"
    /\ pubres' = NoPubRes
    /\ UNCHANGED <<notifications, subscribed, listeners, inbox, sending,
                   subop, handled>>

\* ------------------------------------------------------------ POST /messages/
\* hash(str(args) + str(kwargs)) in a worker: str hashing is keyed with the
\* process's hash seed, so the value is one per worker and text.
MessageKey(worker, text) ==
    IF worker = "w1" THEN (IF text = "t1" THEN "k1" ELSE "k2")
    ELSE (IF text = "t1" THEN "k3" ELSE "k4")

\* get_current_user let the sender in; rate_limit.wrapper makes the key and
\* is_allowed queues its commands.
PostStart(sender, recipient, worker, text) ==
    /\ posting.at = "idle"
    /\ Len(posted) < MaxPosts
    /\ users[sender].exists /\ users[sender].is_active
    /\ WrapperStart(1, MessageKey(worker, text))
    /\ posting' = [at |-> "limit", req |-> Len(posted) + 1, sender |-> sender,
                   recipient |-> recipient,
                   key |-> MessageKey(worker, text)]
    /\ UNCHANGED <<messages, tasks, posted>>

\* How a request ended.
Posted(out) ==
    [req |-> posting.req, sender |-> posting.sender,
     recipient |-> posting.recipient, key |-> posting.key, out |-> out,
     at |-> clock]

\* is_allowed's round trip: an allowed request goes on to the route's body.
PostLimit(store) ==
    /\ posting.at = "limit"
    /\ Execute(1, store)
    /\ posting' = IF calls'[1].at = "idle" THEN [posting EXCEPT !.at = "body"]
                  ELSE posting
    /\ UNCHANGED <<messages, tasks, posted>>

\* The wrapper's rejection.
PostRejected(store, frac) ==
    /\ posting.at = "limit"
    /\ RetryAfter(1, store, frac)
    /\ posted' = Append(posted, Posted("429"))
    /\ posting' = NoPost
    /\ UNCHANGED <<messages, tasks>>

\* The body up to the await in MessageService.send_message:
\* send_message_task.delay puts the task on the broker, or raises when the
\* broker cannot be reached.
PostEnqueue(store) ==
    /\ posting.at = "body"
    /\ IF store = "unreachable"
       THEN /\ posted' = Append(posted, Posted("500"))
            /\ posting' = NoPost
            /\ UNCHANGED tasks
       ELSE /\ tasks' = tasks \cup {[req |-> posting.req,
                                     sender |-> posting.sender,
                                     recipient |-> posting.recipient,
                                     retries |-> 0]}
            /\ posting' = [posting EXCEPT !.at = "send"]
            /\ UNCHANGED posted
    /\ UNCHANGED <<messages, limiterVars>>

\* A row of messages; req and by are history: the request the row was made
\* for and who made it.
NewMessage(sender, recipient, req, by) ==
    [sender_id |-> sender, recipient_id |-> recipient, req |-> req, by |-> by]

\* MessageService.send_message(sender, message_create, sync=True): the
\* recipient lookup, then MessageRepository.create; NotFoundException
\* becomes 404.
PostSend ==
    /\ posting.at = "send"
    /\ IF ~users[posting.recipient].exists
       THEN /\ posted' = Append(posted, Posted("404"))
            /\ UNCHANGED messages
       ELSE /\ messages' = messages \cup
                                {NewMessage(posting.sender, posting.recipient,
                                            posting.req, "route")}
            /\ posted' = Append(posted, Posted("200"))
    /\ posting' = NoPost
    /\ UNCHANGED <<tasks, limiterVars>>

\* A Celery worker runs send_message_task: send_message_sync looks the
\* recipient up and MessageRepository.create_sync inserts the row; any
\* exception makes the task retry, max_retries times at most.
TaskRun(t, db) ==
    /\ t \in tasks
    /\ IF db = "reply" /\ users[t.recipient].exists
       THEN /\ messages' = messages \cup
                                {NewMessage(t.sender, t.recipient, t.req, "task")}
            /\ tasks' = tasks \ {t}
       ELSE /\ tasks' = IF t.retries < TASK_MAX_RETRIES
                        THEN (tasks \ {t}) \cup {[t EXCEPT !.retries = @ + 1]}
                        ELSE tasks \ {t}
            /\ UNCHANGED messages
    /\ UNCHANGED <<posting, posted, limiterVars>>

\* ------------------------------------------------------------ specifications
\* The refresh-token requests slot p may start for the users U, and the
\* steps it may take.
TokenRequest(p, U) ==
    \/ \E u \in U, pw \in RegisterPasswords : RegisterStart(p, u, pw)
    \/ RegisterCreate(p)
    \/ RegisterProfile(p)
    \/ RegisterStore(p)
    \/ \E u \in U, pw \in Passwords : LoginStart(p, u, pw)
    \/ LoginStore(p)
    \/ \E token \in issuedRefresh : RefreshStart(p, token)
    \/ RefreshUser(p)
    \/ RefreshRevoke(p)
    \/ RefreshStore(p)
    \/ \E token \in issuedRefresh : LogoutStart(p, token)
    \/ LogoutRevoke(p)
    \/ \E u \in U : LogoutAllStart(p, u)
    \/ LogoutAllCommit(p)
    \/ \E token \in issuedAccess : LogoutAllEndpoint(p, token)
    \/ Abort(p)

\* A raw token no request_password_reset produced, and the tokens a client
\* may present: the ones that were emailed and that one.
UnknownToken == [v |-> 0, h |-> 0]
ResetInputs == {m.token : m \in outbox} \cup {UnknownToken}

\* The password-reset requests slot p may start for the users U, and the
\* steps it may take.
ResetRequest(p, U) ==
    \/ \E u \in U : RequestResetStart(p, u)
    \/ RequestResetCreate(p)
    \/ RequestResetSend(p)
    \/ \E token \in ResetInputs, pw \in Passwords : ConfirmStart(p, token, pw)
    \/ ConfirmUser(p)
    \/ ConfirmUpdate(p)
    \/ ConfirmUse(p)

\* Refresh-token lifecycle, requests served one at a time.
Next ==
    /\ \/ \E d \in RefreshTicks : Tick(d)
       \/ \E p \in {1} : TokenRequest(p, Users)
       \/ \E p \in {1}, u \in Users, b \in BOOLEAN : UpdateUser(p, u, b)
    /\ UNCHANGED <<limiterVars, pubsubVars, messageVars>>

Spec == Init /\ [][Next]_vars

\* Refresh-token lifecycle of one user on a server whose local zone is UTC,
\* requests interleaved at their await points.
InitUtc == Init /\ tz = 0

NextConc ==
    /\ \/ \E p \in Procs : TokenRequest(p, {"u1"})
    /\ UNCHANGED <<limiterVars, pubsubVars, messageVars>>

SpecConc == InitUtc /\ [][NextConc]_vars

\* Password-reset lifecycle, requests served one at a time.
NextReset ==
    /\ \/ \E d \in ResetTicks : Tick(d)
       \/ \E p \in {1}, u \in Users, pw \in RegisterPasswords :
             RegisterStart(p, u, pw)
       \/ \E p \in {1} : RegisterCreate(p) \/ RegisterProfile(p) \/ RegisterStore(p)
       \/ \E p \in {1} : ResetRequest(p, Users)
       \/ \E p \in {1} : Abort(p)
    /\ UNCHANGED <<limiterVars, pubsubVars, messageVars>>

SpecReset == Init /\ [][NextReset]_vars

\* Password-reset lifecycle of one user on a server whose local zone is UTC,
\* requests interleaved at their await points.
NextResetConc ==
    /\ \/ \E pw \in RegisterPasswords : RegisterStart(1, "u1", pw)
       \/ RegisterCreate(1) \/ RegisterProfile(1) \/ RegisterStore(1)
       \/ \E p \in Procs : ResetRequest(p, {"u1"})
    /\ UNCHANGED <<limiterVars, pubsubVars, messageVars>>

SpecResetConc == InitUtc /\ [][NextResetConc]_vars

\* Every operation on one user, requests served one at a time.
NextAll ==
    /\ \/ \E d \in RefreshTicks : Tick(d)
       \/ \E p \in {1} : TokenRequest(p, {"u1"})
       \/ \E p \in {1} : ResetRequest(p, {"u1"})
       \/ \E p \in {1}, b \in BOOLEAN : UpdateUser(p, "u1", b)
    /\ UNCHANGED <<limiterVars, pubsubVars, messageVars>>

SpecAll == Init /\ [][NextAll]_vars

\* What a client may present to POST /auth/refresh besides a refresh token it
\* was given: that token with a signature made with another key, without a
\* jti, without a sub or with the sub of a user that does not exist, and an
\* access token.
Crafted(t) ==
    {[t EXCEPT !.sig = "forged"], [t EXCEPT !.payload.jti = 0],
     [t EXCEPT !.payload.sub = "none"], [t EXCEPT !.payload.sub = "u2"]}
RefreshInputs ==
    issuedRefresh \cup issuedAccess \cup UNION {Crafted(t) : t \in issuedRefresh}

\* Requests of one user on a server whose local zone is UTC, served one at a
\* time, the bearer token of an authenticated route being any token the
\* user was given.
NextBearer ==
    /\ \/ \E d \in RefreshTicks : Tick(d)
       \/ \E pw \in RegisterPasswords : RegisterStart(1, "u1", pw)
       \/ RegisterCreate(1) \/ RegisterProfile(1) \/ RegisterStore(1)
       \/ \E pw \in Passwords : LoginStart(1, "u1", pw)
       \/ LoginStore(1)
       \/ \E token \in issuedRefresh : LogoutStart(1, token)
       \/ LogoutRevoke(1)
       \/ \E token \in issuedAccess \cup issuedRefresh :
              LogoutAllEndpoint(1, token)
    /\ UNCHANGED <<limiterVars, pubsubVars, messageVars>>

SpecBearer == InitUtc /\ [][NextBearer]_vars

\* Refresh-token lifecycle of one user, requests served one at a time, the
\* refresh endpoint given any token.
NextRefreshAny ==
    /\ \/ \E d \in RefreshTicks : Tick(d)
       \/ \E pw \in RegisterPasswords : RegisterStart(1, "u1", pw)
       \/ RegisterCreate(1) \/ RegisterProfile(1) \/ RegisterStore(1)
       \/ \E token \in RefreshInputs : RefreshStart(1, token)
       \/ RefreshUser(1) \/ RefreshRevoke(1) \/ RefreshStore(1)
       \/ \E token \in issuedRefresh : LogoutStart(1, token)
       \/ LogoutRevoke(1)
       \/ \E b \in BOOLEAN : UpdateUser(1, "u1", b)
    /\ UNCHANGED <<limiterVars, pubsubVars, messageVars>>

SpecRefreshAny == Init /\ [][NextRefreshAny]_vars

\* Refresh-token lifecycle of one user on a server whose local zone is UTC,
\* with the clock moving to just before, onto, or just past a token's exp.
NextExpiry ==
    /\ \/ \E d \in ExpiryTicks : Tick(d)
       \/ \E p \in {1} : TokenRequest(p, {"u1"})
    /\ UNCHANGED <<limiterVars, pubsubVars, messageVars>>

SpecExpiry == InitUtc /\ [][NextExpiry]_vars

\* The rate limiter with one caller at a time, each check reading a later
\* clock value than the one before and ending within the second it started
\* in, and the store reachable.
LaterThanLast == \A i \in 1..Len(log) : log[i].now < clock

InitLimiter ==
    /\ AuthInit /\ tz = 0
    /\ PubSubInit
    /\ LimiterInit
    /\ MessagesInit
    /\ limit \in Limits
    /\ window \in Windows

NextLimiter ==
    /\ \/ calls[1].at = "idle" /\ Advance
       \/ LaterThanLast /\ LimiterCall(1, CallKeys, {"reply"})
    /\ UNCHANGED <<authVars, pubsubVars, messageVars>>

SpecLimiter == InitLimiter /\ [][NextLimiter]_vars

\* The rate limiter with concurrent callers on one key and the store
\* reachable.
NextLimiterConc ==
    /\ \/ Advance
       \/ \E p \in Procs : LimiterCall(p, {"k1"}, {"reply"})
    /\ UNCHANGED <<authVars, pubsubVars, messageVars>>

SpecLimiterConc == InitLimiter /\ [][NextLimiterConc]_vars

\* The rate limiter with one caller at a time and a store whose round trips
\* may fail.
NextLimiterFail ==
    /\ \/ Advance
       \/ LimiterCall(1, {"k1"}, StoreOutcomes)
    /\ UNCHANGED <<authVars, pubsubVars, messageVars>>

SpecLimiterFail == InitLimiter /\ [][NextLimiterFail]_vars

\* The rate limiter with one caller at a time on one key, is_allowed reaching
\* the store, and get_retry_after reading the clock at any half-second with
\* a round trip that may fail.
NextRetry ==
    /\ \/ Advance
       \/ WrapperStart(1, "k1")
       \/ Execute(1, "reply")
       \/ \E store \in StoreOutcomes, frac \in Fractions :
              RetryAfter(1, store, frac)
    /\ UNCHANGED <<authVars, pubsubVars, messageVars>>

SpecRetry == InitLimiter /\ [][NextRetry]_vars

\* POST /messages/ requests of u1 to u2, served one at a time by the workers, with
\* the decorator's limit scaled to Limits and its window to two seconds, and
\* the Celery worker running the queued tasks.
NextMessages ==
    \/ /\ \/ \E u \in Users, pw \in RegisterPasswords : RegisterStart(1, u, pw)
          \/ RegisterCreate(1)
          \/ RegisterProfile(1)
          \/ RegisterStore(1)
       /\ UNCHANGED <<limiterVars, pubsubVars, messageVars>>
    \/ /\ posting.at = "idle" /\ Advance
       /\ UNCHANGED <<authVars, pubsubVars, messageVars>>
    \/ /\ \/ \E worker \in Workers, text \in Texts :
                PostStart("u1", "u2", worker, text)
          \/ PostLimit("reply")
          \/ PostRejected("reply", 0)
          \/ \E store \in {"reply", "unreachable"} : PostEnqueue(store)
          \/ PostSend
          \/ \E t \in tasks, db \in {"reply", "unreachable"} : TaskRun(t, db)
       /\ UNCHANGED <<authVars, pubsubVars>>

InitMessages == InitLimiter /\ window = 2

SpecMessages == InitMessages /\ [][NextMessages]_vars

\* Notifications: users register, notifications are sent, and one listener
\* subscribes, listens and unsubscribes, all interleaved at their awaits.
InitPubSub == Init /\ tz = 0

NextPubSub ==
    \/ /\ \/ \E u \in Users, pw \in RegisterPasswords : RegisterStart(1, u, pw)
          \/ RegisterCreate(1)
          \/ RegisterProfile(1)
          \/ RegisterStore(1)
       /\ UNCHANGED <<limiterVars, pubsubVars, messageVars>>
    \/ /\ \/ \E u \in Users, sync \in BOOLEAN : SendCreate(u, sync)
          \/ \E store \in {"reply", "unreachable"} : SendPublish(store)
          \/ \E u \in Users, cb \in Callbacks, store \in {"reply", "unreachable"} :
                SubscribeBroker(u, cb, store)
          \/ SubscribeStore
          \/ \E u \in Users, store \in {"reply", "unreachable"} :
                UnsubscribeBroker(u, store)
          \/ UnsubscribeRemove
          \/ ListenStart
          \/ ListenStep
          \/ ListenEnd
       /\ UNCHANGED <<authVars, limiterVars, messageVars>>

SpecPubSub == InitPubSub /\ [][NextPubSub]_vars

\* Notifications of one user with the broker reachable and other clients
\* publishing on the channels as well.
NextPubSubAny ==
    \/ /\ \/ \E pw \in RegisterPasswords : RegisterStart(1, "u1", pw)
          \/ RegisterCreate(1)
          \/ RegisterProfile(1)
          \/ RegisterStore(1)
       /\ UNCHANGED <<limiterVars, pubsubVars, messageVars>>
    \/ /\ \/ \E sync \in BOOLEAN : SendCreate("u1", sync)
          \/ SendPublish("reply")
          \/ \E cb \in Callbacks : SubscribeBroker("u1", cb, "reply")
          \/ SubscribeStore
          \/ UnsubscribeBroker("u1", "reply")
          \/ UnsubscribeRemove
          \/ ListenStart
          \/ ListenStep
          \/ ListenEnd
          \/ \E c \in Channels : ForeignPublish(c)
       /\ UNCHANGED <<authVars, limiterVars, messageVars>>

SpecPubSubAny == InitPubSub /\ [][NextPubSubAny]_vars

\* ------------------------------------------------------------ properties
Rows == 1..Len(refresh_tokens)
ResetRows == 1..Len(reset_tokens)
RevokedMsg == "Refresh token has been revoked"
UsedMsg == "Reset token has already been used"

\* C1: with requests served one at a time, a refresh that presents an
\* unexpired issued token of an active user succeeds if the token's row was
\* not revoked and no refresh with it succeeded before, and fails with the
\* revoked-token error if a refresh with it succeeded before.
C1_SingleUseRotation ==
    \A p \in Procs :
        (res[p].op = "refresh" /\ res[p].preValid /\ res[p].out # "aborted") =>
            /\ (res[p].preActive /\ ~res[p].preRevoked /\ ~res[p].preRotated)
                   => res[p].out = "ok"
            /\ res[p].preRotated => res[p].out = RevokedMsg

\* C2: under every interleaving, at most one refresh that presents a given
\* token returns a new token pair.
C2_ConcurrentRotation ==
    \A i \in Rows : refresh_tokens[i].rot <= 1

\* C3: no step of any operation removes a row or clears its revoked flag, and
\* a refresh that presents a token whose row is revoked fails, with the
\* revoked-token error while the token is unexpired.
C3_RevocationPermanent ==
    [][/\ \A i \in Rows :
              refresh_tokens[i].revoked =>
                  /\ i \in 1..Len(refresh_tokens')
                  /\ refresh_tokens'[i].jti = refresh_tokens[i].jti
                  /\ refresh_tokens'[i].revoked
       /\ \A p \in Procs :
              (res'[p].op = "refresh" /\ res'[p].preRevoked) =>
                  /\ res'[p].out # "ok"
                  /\ res'[p].preValid => res'[p].out = RevokedMsg]_vars

C3_Witness ==
    \E p \in Procs :
        /\ res[p].op = "refresh" /\ res[p].preRevoked /\ res[p].preValid
        /\ res[p].out = RevokedMsg
        /\ Len(reset_tokens) > 0

\* C4: with requests served one at a time, no reset token is confirmed
\* successfully more than once, and a confirmation that presents a token
\* already confirmed fails with the already-used error and leaves the users
\* table as it was.
C4_ResetReplay ==
    [][/\ \A i \in 1..Len(reset_tokens') : reset_tokens'[i].conf <= 1
       /\ \A p \in Procs :
              (res'[p].op = "confirm_reset" /\ res'[p].preConfirmed) =>
                  /\ res'[p].out = UsedMsg
                  /\ users' = users]_vars

C4_Witness ==
    \E p \in Procs :
        /\ res[p].op = "confirm_reset" /\ res[p].preConfirmed
        /\ res[p].out = UsedMsg

\* C5: the step that completes logout_all(u) leaves every row of u revoked
\* and changes no row of another user; it adds and removes no row.
C5_RevokeAllFrame ==
    [][\A p \in Procs :
          (pc[p] = "la_commit" /\ res'[p].op = "logout_all"
                               /\ res'[p].out = "ok") =>
              /\ Len(refresh_tokens') = Len(refresh_tokens)
              /\ \A i \in Rows :
                    IF refresh_tokens[i].user_id = loc[p].uid
                    THEN /\ refresh_tokens'[i].revoked
                         /\ refresh_tokens'[i].user_id = loc[p].uid
                         /\ refresh_tokens'[i].jti = refresh_tokens[i].jti
                    ELSE refresh_tokens'[i] = refresh_tokens[i]]_vars

C5_Witness ==
    \E p \in Procs :
        /\ res[p].op = "logout_all" /\ res[p].out = "ok"
        /\ \E i \in Rows : /\ refresh_tokens[i].user_id = res[p].uid
                           /\ refresh_tokens[i].by = "logout_all"
        /\ \E i \in Rows : /\ refresh_tokens[i].user_id # res[p].uid
                           /\ ~refresh_tokens[i].revoked

\* C6: when POST /auth/logout-all has returned its success message for a
\* user, every refresh-token row of that user is revoked.
C6_LogoutAllEndpoint ==
    \A p \in Procs :
        (/\ res[p].op = "logout_all_endpoint"
         /\ res[p].out = "Successfully logged out from all devices") =>
            \A i \in Rows :
                refresh_tokens[i].user_id = res[p].uid =>
                    refresh_tokens[i].revoked

\* C7 as stated: a logout that presents a token an earlier logout revoked
\* raises no error and leaves the table as it was.
C7_LogoutIdempotent ==
    [][\A p \in Procs :
          (res'[p].op = "logout" /\ res'[p].preLoggedOut
                                 /\ res'[p].out # "aborted") =>
              /\ res'[p].out = "ok"
              /\ refresh_tokens' = refresh_tokens]_vars

\* C7 amended: a logout that presents a token an earlier logout revoked
\* leaves the table as it was, and raises no error as long as the token
\* has not reached its exp.
C7_LogoutIdempotentWhileValid ==
    [][\A p \in Procs :
          (res'[p].op = "logout" /\ res'[p].preLoggedOut
                                 /\ res'[p].out # "aborted") =>
              /\ res'[p].preValid => res'[p].out = "ok"
              /\ ~res'[p].preValid => res'[p].out = "Invalid refresh token"
              /\ refresh_tokens' = refresh_tokens]_vars

C7_Witness ==
    \E p \in Procs :
        /\ res[p].op = "logout" /\ res[p].preLoggedOut /\ res[p].out = "ok"
        /\ \E i \in Rows : ~refresh_tokens[i].revoked

\* C8: no two rows share a jti, and every refresh token returned to a client
\* has exactly one row with its jti claim, and that row's user_id is its sub
\* claim.
C8_JtiInvariant ==
    /\ \A i, j \in Rows :
          refresh_tokens[i].jti = refresh_tokens[j].jti => i = j
    /\ \A t \in issuedRefresh :
          /\ Cardinality(RowsByJti(decode_token(t).jti)) = 1
          /\ \A i \in RowsByJti(decode_token(t).jti) :
                refresh_tokens[i].user_id = decode_token(t).sub

C8_Witness ==
    /\ Cardinality(issuedRefresh) = 2
    /\ \E i \in Rows : /\ refresh_tokens[i].rot = 1
                       /\ \E t \in issuedRefresh :
                              decode_token(t).jti = refresh_tokens[i].succ

\* C9: in no state is a row revoked by a rotation while no row holds the jti
\* of that rotation's replacement token.
C9_RotationAtomic ==
    \A i \in Rows :
        (refresh_tokens[i].revoked /\ refresh_tokens[i].succ # 0) =>
            ~JtiFree(refresh_tokens[i].succ)

\* C10: every row of password_reset_tokens holds the SHA-256 hash of a raw
\* token and no raw token; a raw token is found only in the email sent for
\* its own row, addressed to that row's user, and in the request that is
\* about to send that email.
C10_ResetTokenSecrecy ==
    /\ \A i \in ResetRows :
          /\ reset_tokens[i].token_hash.h = 1
          /\ \E raw \in {[v |-> reset_tokens[i].token_hash.v, h |-> 0]} :
                reset_tokens[i].token_hash = hash_token(raw)
    /\ \A m \in outbox :
          /\ m.token.h = 0
          /\ \E i \in ResetRows :
                /\ reset_tokens[i].token_hash = hash_token(m.token)
                /\ reset_tokens[i].user_id = m.to
    /\ \A p \in Procs :
          (loc[p].op = "request_reset" /\ loc[p].raw # NoLoc.raw) =>
              /\ pc[p] = "pr_send"
              /\ \E i \in ResetRows :
                    /\ reset_tokens[i].token_hash = hash_token(loc[p].raw)
                    /\ reset_tokens[i].user_id = loc[p].uid

C10_Witness ==
    /\ outbox # {}
    /\ \E i \in ResetRows : reset_tokens[i].used

\* C11: request_password_reset returns the same result whether or not the
\* email matches a user, and a request whose email matches no user ends in
\* one step that adds no row to password_reset_tokens and sends no email.
C11_NoEnumeration ==
    [][\A p \in Procs :
          (res'[p].op = "request_reset" /\ res'[p].out # "aborted") =>
              /\ res'[p].out = "ok"
              /\ ~users[res'[p].uid].exists =>
                    /\ pc[p] = "idle"
                    /\ reset_tokens' = reset_tokens
                    /\ outbox' = outbox]_vars

C11_Witness ==
    \E p \in Procs :
        /\ res[p].op = "request_reset" /\ res[p].out = "ok"
        /\ ~users[res[p].uid].exists
        /\ \E m \in outbox : users[m.to].exists

\* C12: every failed login has the same caller-visible outcome, whether no
\* user matches, the password is wrong, or the matched user is deactivated.
C12_GenericLoginFailure ==
    \A p \in Procs :
        (res[p].op = "login" /\ res[p].out \notin {"ok", "aborted"}) =>
            res[p].out = "Invalid credentials"

\* C19: a refresh that presents a correctly signed token whose row's expiry
\* has passed fails with the expired-token error when the row is not
\* revoked, and with the revoked-token error when it is.
C19_ExpiredError ==
    [][\A p \in Procs, token \in issuedRefresh :
          RefreshStart(p, token) =>
              \A i \in RowsByJti(decode_token(token).jti) :
                  IsExpired(LoadDateTime(refresh_tokens[i].expires_at)) =>
                      IF refresh_tokens[i].revoked
                      THEN res'[p].out = RevokedMsg
                      ELSE res'[p].out = "Refresh token has expired"]_vars

\* The calls on the key of call i that ended before it.
EarlierOnKey(i) == {j \in 1..(i - 1) : log[j].key = log[i].key}

\* C13: with one caller at a time and the store reachable, on a key that
\* starts empty a check is allowed when fewer than limit checks were made
\* before it and all of them less than window seconds ago, it is rejected
\* when exactly limit checks were made before it, all less than window
\* seconds ago, and it is allowed when every admitted check before it was
\* made at least window seconds ago.
C13_SlidingWindow ==
    \A i \in 1..Len(log) :
        LET same == EarlierOnKey(i)
            within == \A j \in same : log[i].now - log[j].now < window
        IN /\ (within /\ Cardinality(same) < limit) => log[i].allowed
           /\ (within /\ Cardinality(same) = limit) => ~log[i].allowed
           /\ (\A j \in same : log[j].allowed =>
                                 log[j].now + window <= log[i].now)
                  => log[i].allowed

\* C14: with the store reachable, under every interleaving of checks on one
\* key, the checks admitted that were made from start to end inside any
\* interval of window seconds number at most limit.
C14_AtomicAdmission ==
    \A i \in 1..Len(log) :
        Cardinality({j \in 1..Len(log) :
                        /\ log[j].key = log[i].key
                        /\ log[j].allowed
                        /\ log[i].now <= log[j].now
                        /\ log[j].done < log[i].now + window}) <= limit

\* C15: a call whose is_allowed round trip to the store failed is allowed,
\* the wrapped function is invoked, and no rate-limit error is raised.
C15_FailOpen ==
    \A i \in 1..Len(log) :
        log[i].store # "reply" =>
            /\ log[i].allowed
            /\ log[i].out = "invoked"

C15_Witness ==
    \E i \in 2..Len(log) :
        /\ log[i].store = "unreachable" /\ log[i].out = "invoked"
        /\ log[i - 1].key = log[i].key
        /\ log[i - 1].out = "rate_limited"
        /\ log[i - 1].now = log[i].now

C17_HandlerIsolation ==
    [][(listening = "running" /\ inbox # <<>> /\ inbox' = Tail(inbox)) =>
          /\ listening' = "running"
          /\ listeners[Head(inbox).channel] # "none" =>
                handled' = Append(handled,
                                  [channel |-> Head(inbox).channel,
                                   data |-> Head(inbox).data,
                                   callback |-> listeners[Head(inbox).channel]])]_vars

C17_Witness ==
    \E i, j \in 1..Len(handled) :
        /\ i < j
        /\ handled[i].callback = "raises"
        /\ listening = "running"

\* C18: when unsubscribe_from_user_notifications(u) has completed, u's
\* channel is not subscribed on the broker and not in the local table, the
\* subscription and callback of every other channel are as they were when
\* the call started; and no step invokes the callback of a channel that is
\* not in the local table.
C18_Unsubscribe ==
    [][/\ (pubres'.op = "unsubscribe" /\ pubres'.out = "ok") =>
              /\ pubres'.channel \notin subscribed'
              /\ listeners'[pubres'.channel] = "none"
              /\ \A c \in Channels \ {pubres'.channel} :
                    /\ listeners'[c] = pubres'.preListeners[c]
                    /\ c \in subscribed' <=> c \in pubres'.preSubscribed
       /\ \A c \in Channels :
              listeners[c] = "none" =>
                  \/ handled' = handled
                  \/ handled'[Len(handled')].channel # c]_vars

C18_Witness ==
    /\ pubres.op = "unsubscribe" /\ pubres.out = "ok"
    /\ listening = "running"
    /\ \E i \in 1..Len(inbox) : inbox[i].channel = pubres.channel
    /\ \E c \in Channels \ {pubres.channel} :
          c \in subscribed /\ listeners[c] # "none"

\* C20: a confirmation with an unknown token fails as invalid; with a used
\* token it fails as already used, expired or not; with an unused token
\* issued more than one hour ago it fails as expired; a failing
\* confirmation changes no password hash and no used flag; a confirmation
\* that succeeds leaves the token used and the user's password hash that of
\* the new password.
C20_ConfirmErrorOrder ==
    [][\A p \in Procs :
          /\ \A token \in ResetInputs, pw \in Passwords :
                ConfirmStart(p, token, pw) =>
                    LET found == ResetRowsByHash(hash_token(token))
                    IN /\ found = {} =>
                             res'[p].out = "Invalid or expired reset token"
                       /\ \A i \in found :
                             IF reset_tokens[i].used
                             THEN res'[p].out = UsedMsg
                             ELSE IF now - reset_tokens[i].issued_at > ResetTTL
                             THEN res'[p].out = "Reset token has expired"
                             ELSE pc'[p] = "cf_user"
                       /\ pc'[p] = "idle" =>
                             users' = users /\ reset_tokens' = reset_tokens
          /\ (/\ res'[p].op = "confirm_reset"
              /\ res'[p].out = "Password successfully reset") =>
                    /\ reset_tokens'[loc[p].ix].used
                    /\ users'[loc[p].uid].password_hash =
                           get_password_hash(loc[p].pw)]_vars

C20_Witness ==
    \E p \in Procs :
        /\ res[p].op = "confirm_reset" /\ res[p].out = UsedMsg
        /\ \E i \in ResetRows :
              /\ reset_tokens[i].used
              /\ now - reset_tokens[i].issued_at > ResetTTL
              /\ users[reset_tokens[i].user_id].password_hash
                     = get_password_hash("pw2")

\* C21: for every refresh token returned by login, registration or refresh,
\* the expires_at of its row, read as UTC the way refresh_access_token reads
\* it, is the instant of the token's exp claim, whatever the server's zone.
C21_ExpiryMatches ==
    \A t \in issuedRefresh :
        \A i \in RowsByJti(decode_token(t).jti) :
            LoadDateTime(refresh_tokens[i].expires_at).wall = decode_token(t).exp

\* C22: with one caller at a time and the store reachable, a rejected check
\* adds no timestamp: a key's set never holds more than limit entries and
\* every entry is the timestamp of an admitted check on that key.
C22_RejectedNotRecorded ==
    \A k \in Keys :
        /\ Cardinality(zsets[k]) <= limit
        /\ \A s \in zsets[k] :
              \E i \in 1..Len(log) :
                  log[i].key = k /\ log[i].now = s /\ log[i].allowed

\* C23: the retry_after a rejected call reports is max(0, earliest + window
\* - now) cut to whole seconds, earliest being the smallest timestamp the
\* key's set holds when get_retry_after reads it, and it is 0 when the set
\* is empty or the round trip of get_retry_after fails.
C23_RetryAfterValue ==
    [][\A store \in StoreOutcomes, frac \in Fractions :
          RetryAfter(1, store, frac) =>
              LET held == zsets[calls[1].key]
                  reported == log'[Len(log')].retry_after
              IN IF store # "reply" \/ held = {}
                 THEN reported = 0
                 ELSE \E earliest \in held :
                        /\ \A s \in held : earliest <= s
                        /\ LET wait == Max(0, 2 * (earliest + window - clock) - frac)
                           IN reported = wait \div 2]_vars

C23_Witness ==
    /\ \E i \in 1..Len(log) :
          /\ log[i].out = "rate_limited" /\ log[i].retry_store = "reply"
          /\ log[i].retry_frac = 1 /\ log[i].retry_after = 1
    /\ \E i \in 1..Len(log) :
          /\ log[i].out = "rate_limited" /\ log[i].retry_store = "unreachable"
          /\ log[i].retry_after = 0

\* C24: when confirm_password_reset calls presenting the same unused,
\* unexpired raw token interleave at their await points, at most one of them
\* succeeds with that token's row.
C24_OneConfirmation ==
    \A i \in ResetRows : reset_tokens[i].conf <= 1

\* The errors refresh_access_token raises from its checks.
RefreshFailures ==
    {"Invalid refresh token", RevokedMsg, "Refresh token has expired",
     "User account is invalid"}

\* C25: a refresh call that ends with one of the errors of its checks ends
\* before its revoke step, and no step of it up to there changes a
\* RefreshToken row: the presented token's row is not revoked and no row is
\* added.
C25_FailedRefreshNoChange ==
    [][\A p \in Procs :
          /\ (res'[p].op = "refresh" /\ res'[p].out \in RefreshFailures) =>
                 /\ pc[p] \in {"idle", "rf_user"}
                 /\ refresh_tokens' = refresh_tokens
          /\ pc'[p] = "rf_user" => refresh_tokens' = refresh_tokens]_vars

C25_Witness ==
    /\ res[1].op = "refresh" /\ res[1].out = "User account is invalid"
    /\ ~users["u1"].is_active
    /\ \E i \in Rows : ~refresh_tokens[i].revoked

\* C26: with one caller at a time and the store reachable, when a call is
\* rejected with retry_after = r and the next check on its key is made r + 1
\* seconds later, that check is allowed.
C26_RetryAfterSufficient ==
    \A i \in 1..Len(log) :
        \A j \in EarlierOnKey(i) :
            (/\ \A m \in EarlierOnKey(i) : m <= j
             /\ log[j].out = "rate_limited"
             /\ log[j].retry_store = "reply"
             /\ log[i].now = log[j].done + log[j].retry_after + 1)
                => log[i].allowed

\* C27: the listen loop does not end in an iteration that takes a message,
\* whatever the message: it ends only when the connection has nothing more to
\* deliver.
C27_ListenerSurvives ==
    [][(listening = "running" /\ listening' = "ended") => inbox' = inbox]_vars

\* C28: a request whose bearer token was issued as a refresh token is
\* rejected with 401 by get_current_user, whether or not the token's row
\* has been revoked.
C28_TokenKinds ==
    [][\A token \in issuedRefresh :
          LogoutAllEndpoint(1, token) => res'[1].out = "401"]_vars

\* C29: once an admitted POST /messages/ request whose recipient exists has
\* returned and no task it queued is left, the table holds exactly one row
\* made for it.
C29_OneRowPerRequest ==
    \A i \in 1..Len(posted) :
        (/\ posted[i].out = "200"
         /\ \A t \in tasks : t.req # posted[i].req)
            => Cardinality({m \in messages : m.req = posted[i].req}) = 1

\* C30: any two POST /messages/ requests of one user are checked against
\* the same rate-limit key, and the requests of one user admitted within
\* any window seconds number at most limit.
C30_PerCallerKey ==
    \A i, j \in 1..Len(posted) :
        posted[i].sender = posted[j].sender =>
            /\ posted[i].key = posted[j].key
            /\ Cardinality({m \in 1..Len(posted) :
                               /\ posted[m].sender = posted[i].sender
                               /\ posted[m].out # "429"
                               /\ posted[i].at <= posted[m].at
                               /\ posted[m].at < posted[i].at + window})
                   <= limit

====
